---- MODULE Spec2Model ----
(***************************************************************************)
(* AirDrop Web: the file record lifecycle of the /api/files,               *)
(* /api/files/register, /api/files/upload-url and /api/share route         *)
(* handlers, over the "files" table and the "files" storage bucket.        *)
(*                                                                         *)
(* Every handler is cut at its awaited gateway calls; each call is one     *)
(* atomic step on the table or the bucket, and any call may report an      *)
(* error. Spec, SpecMeta, SpecShare and SpecFrame take a new request once  *)
(* the handler in flight has returned; SpecRace and SpecWrites interleave. *)
(* reqs holds the handlers in flight, each with its position and locals;   *)
(* resp holds the response a step has just returned and is NoResp after    *)
(* every step that returns none, so a predicate on resp speaks of the      *)
(* store at the moment the response is returned.                           *)
(* issued is the history of the share tokens an update has stored: the     *)
(* token, the record and the caller of the PATCH; removed is the history   *)
(* of the paths whose object a DELETE has removed from the bucket.         *)
(* Strings that the code tests by content (user ids, storage paths) are    *)
(* sequences of one-character strings.                                     *)
(***************************************************************************)
EXTENDS Integers, Sequences, FiniteSets, TLC

\* ------------------------------------------------------------------ bounds
MaxIds == 2         \* rows the metadata store ever generates an id for
MaxUuid == 2        \* randomUUID() draws used for storage names
MaxTokens == 2      \* randomUUID() draws used for share tokens
MaxBatch == 2       \* files in one multipart upload
MaxNameLen == 3     \* characters of a generated file name
MaxTypeLen == 3     \* characters of a generated MIME type

\* --------------------------------------------------------------- constants
MAX_FILE_SIZE == 52428800
SIGNED_URL_TTL == 3600

Slots == {1, 2}                      \* requests in flight at once
U1 == <<"a">>
U2 == <<"a", "b">>
Users == {U1, U2}                    \* identities Clerk's auth() resolves
NoUser == <<>>                       \* auth() resolved no userId
NoToken == 0                         \* share_token IS NULL

VARIABLES files, storage, signedUploads, nextId, nextUuid, nextToken, reqs, resp,
          issued, removed

vars == <<files, storage, signedUploads, nextId, nextUuid, nextToken, reqs, resp, issued,
          removed>>

\* ----------------------------------------------------------- string helpers
\* String.prototype.startsWith
StartsWith(s, p) == Len(p) <= Len(s) /\ SubSeq(s, 1, Len(p)) = p

\* String.prototype.replace(pattern, "") with a string pattern: the first
\* occurrence only.
ReplaceFirst(s, p) ==
    LET hits == {i \in 1..(Len(s) - Len(p) + 1) : SubSeq(s, i, i + Len(p) - 1) = p}
    IN  IF hits = {} \/ p = <<>> THEN s
        ELSE LET i == CHOOSE j \in hits : \A k \in hits : j <= k
             IN  SubSeq(s, 1, i - 1) \o SubSeq(s, i + Len(p), Len(s))

\* `${userId}/`
UserPrefix(userId) == userId \o <<"/">>

\* randomUUID() as the k-th fresh draw, a two-character name
Uuid(k) == <<"f", ToString(k)>>


\* ------------------------------------------------------------ the two stores
\* Columns the inserts never supply: the table's defaults.
ColumnDefaults == [is_favorite |-> FALSE, tags |-> <<>>, share_token |-> NoToken]

\* The row built by .insert({user_id, file_path, file_name, file_size, ...})
InsertRow(id, userId, filePath, fileName, fileSize) ==
    [id |-> id, user_id |-> userId, file_path |-> filePath,
     file_name |-> fileName, file_size |-> fileSize] @@ ColumnDefaults

\* storage.from("files").list(folder, {search}): the objects of the bucket
\* whose name is LIKE folder/search%
StorageList(objects, folder, search) ==
    {p \in objects : StartsWith(p, UserPrefix(folder) \o search)}

\* `${userId}/${filename}` with filename = `${uniqueId}...`
UploadPathNoFolder(userId, uniqueId) == uniqueId

UploadPath(userId, uniqueId) == UserPrefix(userId) \o uniqueId

\* ------------------------------------------------------- requests, responses
NoResp == [op |-> "none"]
Err(msg) == [error |-> msg]
Resp(op, user, status, body, request) ==
    [op |-> op, user |-> user, status |-> status, body |-> body, req |-> request]

NullUrl == [path |-> <<>>, ttl |-> 0]
SignedUrl(path) == [path |-> path, ttl |-> SIGNED_URL_TTL]

\* A handler that reaches its second awaited call stays in flight. Two handlers
\* in flight are told apart by their locals, so one whose locals would equal
\* another's waits for the other to move on.
CanStart(r) == r \notin reqs /\ Cardinality(reqs) < Cardinality(Slots)
Start(r) == reqs' = reqs \cup {r}
Move(r, r2) == r2 \notin (reqs \ {r}) /\ reqs' = (reqs \ {r}) \cup {r2}
Done(r) == reqs' = reqs \ {r}

Init ==
    /\ files = {}
    /\ storage = {}
    /\ signedUploads = {}
    /\ nextId = 1
    /\ nextUuid = 1
    /\ nextToken = 1
    /\ reqs = {}
    /\ resp = NoResp
    /\ issued = {}
    /\ removed = {}

\* ------------------------------------------- POST /api/files/register
\* filePath.startsWith(`${userId}/`)
OwnsPathNoSlash(filePath, userId) == StartsWith(filePath, userId)

OwnsPath(filePath, userId) == StartsWith(filePath, UserPrefix(userId))

Register(u, b) ==
    /\ UNCHANGED <<files, storage, signedUploads, nextId, nextUuid, nextToken, issued, removed>>
    /\ IF b.filePath = <<>> \/ b.fileName = ""
       THEN /\ resp' = Resp("register", u, 400, Err("Missing required fields"),
                            [body |-> b, storeCalls |-> 0])
            /\ UNCHANGED reqs
       ELSE IF ~OwnsPath(b.filePath, u)
       THEN /\ resp' = Resp("register", u, 403, Err("Invalid file path"),
                            [body |-> b, storeCalls |-> 0])
            /\ UNCHANGED reqs
       ELSE \E storageError \in BOOLEAN :
            LET fileData == StorageList(storage, u,
                                        ReplaceFirst(b.filePath, UserPrefix(u)))
                r == [op |-> "register", pc |-> "insert", user |-> u, body |-> b]
            IN  IF storageError \/ fileData = {}
                THEN /\ resp' = Resp("register", u, 404, Err("File not found in storage"),
                                     [body |-> b, storeCalls |-> 1])
                     /\ UNCHANGED reqs
                ELSE /\ CanStart(r)
                     /\ Start(r)
                     /\ resp' = NoResp

RegisterInsert(r) ==
    /\ r.op = "register"
    /\ r.pc = "insert"
    /\ UNCHANGED <<storage, signedUploads, nextUuid, nextToken, issued, removed>>
    /\ Done(r)
    /\ \E dbError \in BOOLEAN :
         IF dbError
         THEN /\ resp' = Resp("register", r.user, 500, Err("Failed to save file metadata"),
                              [body |-> r.body, storeCalls |-> 1])
              /\ UNCHANGED <<files, nextId>>
         ELSE /\ nextId <= MaxIds
              /\ LET fileRecord == InsertRow(nextId, r.user, r.body.filePath,
                                             r.body.fileName, r.body.fileSize)
                 IN  /\ files' = files \cup {fileRecord}
                     /\ resp' = Resp("register", r.user, 200, [file |-> fileRecord],
                                     [body |-> r.body, storeCalls |-> 1])
              /\ nextId' = nextId + 1

\* ------------------------------------------------------ POST /api/files
\* The synchronous head of a loop iteration: every oversize file from index i
\* on is reported and skipped, up to the first file that reaches the upload.
SkipOversizeBreak(batch, i, errors) ==
    IF i <= Len(batch) /\ batch[i].size > MAX_FILE_SIZE
    THEN [i |-> Len(batch) + 1,
          errors |-> Append(errors, <<batch[i].name, "File too large (max 50MB)">>)]
    ELSE [i |-> i, errors |-> errors]

RECURSIVE SkipOversize(_, _, _)
SkipOversize(batch, i, errors) ==
    IF i <= Len(batch) /\ batch[i].size > MAX_FILE_SIZE
    THEN SkipOversize(batch, i + 1,
                      Append(errors, <<batch[i].name, "File too large (max 50MB)">>))
    ELSE [i |-> i, errors |-> errors]

\* The handler's 200 response.
UploadResponseNoErrors(st) ==
    Resp("upload", st.user, 200,
         [success |-> Len(st.errors) = 0, uploaded |-> st.uploaded, errors |-> st.errors],
         [files |-> st.files])

UploadResponse(st) ==
    Resp("upload", st.user, 200,
         [success |-> Len(st.uploaded) > 0, uploaded |-> st.uploaded, errors |-> st.errors],
         [files |-> st.files])

\* The loop of a handler with locals st run on from file st.i to its next
\* awaited call.
UploadAdvance(st) ==
    LET sk == SkipOversize(st.files, st.i, st.errors)
    IN  [st EXCEPT !.i = sk.i, !.errors = sk.errors, !.pc = "blob", !.path = <<>>]

\* Handler r continues with locals st: either the next awaited upload, or the
\* response once the batch is exhausted.
UploadContinue(r, st) ==
    LET nx == UploadAdvance(st)
    IN  IF nx.i > Len(nx.files)
        THEN /\ Done(r)
             /\ resp' = UploadResponse(nx)
        ELSE /\ Move(r, nx)
             /\ resp' = NoResp

Upload(u, batch) ==
    /\ UNCHANGED <<files, storage, signedUploads, nextId, nextUuid, nextToken, issued, removed>>
    /\ IF Len(batch) = 0
       THEN /\ resp' = Resp("upload", u, 400, Err("No files provided"), [files |-> batch])
            /\ UNCHANGED reqs
       ELSE LET nx == UploadAdvance([op |-> "upload", pc |-> "blob", user |-> u,
                                     files |-> batch, i |-> 1, path |-> <<>>,
                                     uploaded |-> <<>>, errors |-> <<>>])
            IN  IF nx.i > Len(batch)
                THEN /\ resp' = UploadResponse(nx)
                     /\ UNCHANGED reqs
                ELSE /\ CanStart(nx)
                     /\ Start(nx)
                     /\ resp' = NoResp

\* await storage.upload(filePath, ..., {upsert: false}); the fresh name is drawn
\* here, a name drawn for a failed upload being used nowhere.
UploadBlobUnchecked(r) ==
    /\ r.op = "upload"
    /\ r.pc = "blob"
    /\ UNCHANGED <<files, signedUploads, nextId, nextToken, issued, removed>>
    /\ nextUuid <= MaxUuid
    /\ LET filePath == UploadPath(r.user, Uuid(nextUuid))
       IN  /\ filePath \notin storage
           /\ \E uploadError \in BOOLEAN :
                storage' = IF uploadError THEN storage ELSE storage \cup {filePath}
           /\ Move(r, [r EXCEPT !.pc = "insert", !.path = filePath])
    /\ nextUuid' = nextUuid + 1
    /\ resp' = NoResp

UploadBlob(r) ==
    /\ r.op = "upload"
    /\ r.pc = "blob"
    /\ UNCHANGED <<files, signedUploads, nextId, nextToken, issued, removed>>
    /\ LET file == r.files[r.i]
       IN  \E uploadError \in BOOLEAN :
             IF uploadError
             THEN /\ UNCHANGED <<storage, nextUuid>>
                  /\ UploadContinue(r, [r EXCEPT !.i = r.i + 1,
                         !.errors = Append(r.errors, <<file.name, "Upload failed">>)])
             ELSE /\ nextUuid <= MaxUuid
                  /\ LET filePath == UploadPath(r.user, Uuid(nextUuid))
                     IN  /\ filePath \notin storage
                         /\ storage' = storage \cup {filePath}
                         /\ Move(r, [r EXCEPT !.pc = "insert", !.path = filePath])
                  /\ nextUuid' = nextUuid + 1
                  /\ resp' = NoResp

\* await from("files").insert({...}).select().single()
UploadInsertNoCleanup(r) ==
    /\ r.op = "upload"
    /\ r.pc = "insert"
    /\ UNCHANGED <<storage, signedUploads, nextUuid, nextToken, issued, removed>>
    /\ LET file == r.files[r.i]
       IN  \E dbError \in BOOLEAN :
             IF dbError
             THEN /\ UploadContinue(r, [r EXCEPT !.i = r.i + 1,
                         !.errors = Append(r.errors, <<file.name, "Failed to save metadata">>)])
                  /\ UNCHANGED <<files, nextId>>
             ELSE /\ nextId <= MaxIds
                  /\ LET fileRecord == InsertRow(nextId, r.user, r.path, file.name, file.size)
                     IN  /\ files' = files \cup {fileRecord}
                         /\ UploadContinue(r, [r EXCEPT !.i = r.i + 1,
                                !.uploaded = Append(r.uploaded, fileRecord)])
                  /\ nextId' = nextId + 1

UploadInsert(r) ==
    /\ r.op = "upload"
    /\ r.pc = "insert"
    /\ UNCHANGED <<storage, signedUploads, nextUuid, nextToken, issued, removed>>
    /\ LET file == r.files[r.i]
       IN  \E dbError \in BOOLEAN :
             IF dbError
             THEN /\ Move(r, [r EXCEPT !.pc = "cleanup"])
                  /\ resp' = NoResp
                  /\ UNCHANGED <<files, nextId>>
             ELSE /\ nextId <= MaxIds
                  /\ LET fileRecord == InsertRow(nextId, r.user, r.path, file.name, file.size)
                     IN  /\ files' = files \cup {fileRecord}
                         /\ UploadContinue(r, [r EXCEPT !.i = r.i + 1,
                                !.uploaded = Append(r.uploaded, fileRecord)])
                  /\ nextId' = nextId + 1

\* await storage.remove([filePath]) after a failed insert; its result is not read.
UploadCleanupSilent(r) ==
    /\ r.op = "upload"
    /\ r.pc = "cleanup"
    /\ UNCHANGED <<files, signedUploads, nextId, nextUuid, nextToken, issued, removed>>
    /\ \E removeError \in BOOLEAN :
         storage' = IF removeError THEN storage ELSE storage \ {r.path}
    /\ UploadContinue(r, [r EXCEPT !.i = r.i + 1])

UploadCleanup(r) ==
    /\ r.op = "upload"
    /\ r.pc = "cleanup"
    /\ UNCHANGED <<files, signedUploads, nextId, nextUuid, nextToken, issued, removed>>
    /\ LET file == r.files[r.i]
       IN  /\ \E removeError \in BOOLEAN :
                storage' = IF removeError THEN storage ELSE storage \ {r.path}
           /\ UploadContinue(r, [r EXCEPT !.i = r.i + 1,
                  !.errors = Append(r.errors, <<file.name, "Failed to save metadata">>)])

\* ------------------------------------------- POST /api/files/upload-url
UploadUrl(u, b) ==
    /\ UNCHANGED <<files, storage, nextId, nextToken, reqs, issued, removed>>
    /\ IF b.fileName = ""
       THEN /\ resp' = Resp("uploadurl", u, 400, Err("fileName and fileType are required"),
                            [body |-> b])
            /\ UNCHANGED <<signedUploads, nextUuid>>
       ELSE IF b.fileSize > MAX_FILE_SIZE
       THEN /\ resp' = Resp("uploadurl", u, 400, Err("File too large (max 50MB)"),
                            [body |-> b])
            /\ UNCHANGED <<signedUploads, nextUuid>>
       ELSE \E error \in BOOLEAN :
              IF error
              THEN /\ resp' = Resp("uploadurl", u, 500, Err("Failed to create upload URL"),
                                   [body |-> b])
                   /\ UNCHANGED <<signedUploads, nextUuid>>
              ELSE /\ nextUuid <= MaxUuid
                   /\ LET filePath == UploadPath(u, Uuid(nextUuid))
                      IN  /\ signedUploads' = signedUploads \cup {filePath}
                          /\ resp' = Resp("uploadurl", u, 200, [filePath |-> filePath],
                                          [body |-> b])
                   /\ nextUuid' = nextUuid + 1

\* The holder of a signed upload URL puts the object at its path.
ClientPut(p) ==
    /\ p \in signedUploads
    /\ signedUploads' = signedUploads \ {p}
    /\ storage' = storage \cup {p}
    /\ resp' = NoResp
    /\ UNCHANGED <<files, nextId, nextUuid, nextToken, reqs, issued, removed>>

\* ------------------------------------------------------- GET /api/files
\* .select("*").eq("user_id", userId)
SelectByOwnerAll(table, userId) == table

SelectByOwner(table, userId) == {r \in table : r.user_id = userId}

List(u) ==
    /\ UNCHANGED <<files, storage, signedUploads, nextId, nextUuid, nextToken, issued, removed>>
    /\ \E error \in BOOLEAN :
         IF error
         THEN /\ resp' = Resp("list", u, 500, Err("Failed to fetch files"), [rows |-> {}])
              /\ UNCHANGED reqs
         ELSE LET r == [op |-> "list", pc |-> "sign", user |-> u,
                        rows |-> SelectByOwner(files, u)]
              IN  /\ CanStart(r)
                  /\ Start(r)
                  /\ resp' = NoResp

\* Promise.all(files.map(createSignedUrl)): a URL is signed only for an object
\* that exists, and any single signing may fail; the record then carries null.
ListSignAllOrNothing(r) ==
    /\ r.op = "list"
    /\ r.pc = "sign"
    /\ UNCHANGED <<files, storage, signedUploads, nextId, nextUuid, nextToken, issued, removed>>
    /\ Done(r)
    /\ \E signed \in SUBSET {f \in r.rows : f.file_path \in storage} :
         resp' = IF signed = r.rows
                 THEN Resp("list", r.user, 200,
                           [files |-> {[file |-> f, url |-> SignedUrl(f.file_path)] :
                                          f \in r.rows}],
                           [rows |-> r.rows])
                 ELSE Resp("list", r.user, 500, Err("Failed to fetch files"),
                           [rows |-> r.rows])

ListSign(r) ==
    /\ r.op = "list"
    /\ r.pc = "sign"
    /\ UNCHANGED <<files, storage, signedUploads, nextId, nextUuid, nextToken, issued, removed>>
    /\ Done(r)
    /\ \E signed \in SUBSET {f \in r.rows : f.file_path \in storage} :
         resp' = Resp("list", r.user, 200,
                      [files |-> {[file |-> f,
                                   url |-> IF f \in signed THEN SignedUrl(f.file_path)
                                           ELSE NullUrl] : f \in r.rows}],
                      [rows |-> r.rows])

\* ----------------------------------------------------- PATCH /api/files
\* .select("*").eq("id", id).eq("user_id", userId): the ownership read of
\* PATCH and DELETE
SelectOwnedById(table, id, userId) == {r \in table : r.id = id}

SelectOwned(table, id, userId) == {r \in table : r.id = id /\ r.user_id = userId}

\* The updates object built from the request body; token is the randomUUID()
\* drawn for generate_share_link, the nextToken-th fresh draw.
UpdatesGenerateWins(b, token) ==
    [fav |-> b.fav, hasTags |-> b.hasTags, tags |-> b.tags,
     setToken |-> b.generate_share_link \/ b.remove_share_link,
     share_token |-> IF b.generate_share_link THEN token ELSE NoToken]

UpdatesNoRevoke(b, token) ==
    [fav |-> b.fav, hasTags |-> b.hasTags, tags |-> b.tags,
     setToken |-> b.generate_share_link,
     share_token |-> token]

Updates(b, token) ==
    [fav |-> b.fav, hasTags |-> b.hasTags, tags |-> b.tags,
     setToken |-> b.generate_share_link \/ b.remove_share_link,
     share_token |-> IF b.remove_share_link THEN NoToken ELSE token]

\* .update(updates) applied to one row
ApplyUpdatesClearing(r, up) ==
    [r EXCEPT !.is_favorite = up.fav = "true",
              !.tags = IF up.hasTags THEN up.tags ELSE <<>>,
              !.share_token = IF up.setToken THEN up.share_token ELSE NoToken]

ApplyUpdatesKeepToken(r, up) ==
    [r EXCEPT !.is_favorite = IF up.fav = "absent" THEN @ ELSE up.fav = "true",
              !.tags = IF up.hasTags THEN up.tags ELSE @,
              !.share_token = IF up.setToken /\ (@ = NoToken \/ up.share_token = NoToken)
                              THEN up.share_token ELSE @]

ApplyUpdatesMergeTags(r, up) ==
    [r EXCEPT !.is_favorite = IF up.fav = "absent" THEN @ ELSE up.fav = "true",
              !.tags = IF up.hasTags
                       THEN @ \o SelectSeq(up.tags,
                                           LAMBDA t : \A k \in 1..Len(r.tags) : r.tags[k] # t)
                       ELSE @,
              !.share_token = IF up.setToken THEN up.share_token ELSE @]

ApplyUpdatesWholeBody(r, up) ==
    [r EXCEPT !.is_favorite = IF up.fav = "absent" THEN @ ELSE up.fav = "true",
              !.tags = IF up.hasTags THEN up.tags ELSE @,
              !.share_token = IF up.setToken THEN up.share_token ELSE @,
              !.file_path = IF up.hasTags THEN UserPrefix(r.user_id) \o up.tags ELSE @]

ApplyUpdates(r, up) ==
    [r EXCEPT !.is_favorite = IF up.fav = "absent" THEN @ ELSE up.fav = "true",
              !.tags = IF up.hasTags THEN up.tags ELSE @,
              !.share_token = IF up.setToken THEN up.share_token ELSE @]

\* The rows of a table that a statement's .eq() filters select: where maps
\* each filtered column to the value it must equal.
Matching(table, where) ==
    {f \in table : \A col \in DOMAIN where : f[col] = where[col]}

\* .update(updates).eq("id", id): the filters of PATCH's write statement
UpdateWhere(r) == [id |-> r.body.id]

\* .delete().eq("id", fileId): the filters of DELETE's write statement
DeleteWhere(r) == [id |-> r.id]

Patch(u, b) ==
    /\ UNCHANGED <<files, storage, signedUploads, nextId, nextUuid, issued, removed>>
    /\ IF b.id = 0
       THEN /\ resp' = Resp("patch", u, 400, Err("File ID required"), [id |-> b.id])
            /\ UNCHANGED <<reqs, nextToken>>
       ELSE \E fetchError \in BOOLEAN :
              LET file == SelectOwned(files, b.id, u)
                  r == [op |-> "patch", pc |-> "update", user |-> u, body |-> b,
                        updates |-> Updates(b, nextToken),
                        file |-> IF Cardinality(file) = 1
                                 THEN CHOOSE f \in file : TRUE ELSE [id |-> 0]]
              IN  IF fetchError \/ Cardinality(file) # 1
                  THEN /\ resp' = Resp("patch", u, 404, Err("File not found"), [id |-> b.id])
                       /\ UNCHANGED <<reqs, nextToken>>
                  ELSE /\ b.generate_share_link => nextToken <= MaxTokens
                       /\ CanStart(r)
                       /\ Start(r)
                       /\ nextToken' = IF b.generate_share_link THEN nextToken + 1
                                       ELSE nextToken
                       /\ resp' = NoResp

\* await .update(updates).eq("id", id).select().single()
PatchUpdateUpsert(r) ==
    /\ r.op = "patch"
    /\ r.pc = "update"
    /\ UNCHANGED <<storage, signedUploads, nextId, nextUuid, nextToken, removed>>
    /\ Done(r)
    /\ LET hit == Matching(files, UpdateWhere(r))
       IN  \E updateError \in BOOLEAN :
             IF updateError \/ Cardinality(hit) > 1
             THEN /\ resp' = Resp("patch", r.user, 500, Err("Failed to update file"),
                                  [body |-> r.body, read |-> r.file])
                  /\ UNCHANGED <<files, issued>>
             ELSE LET old == IF hit = {} THEN r.file ELSE CHOOSE f \in hit : TRUE
                      updatedFile == ApplyUpdates(old, r.updates)
                  IN  /\ files' = (files \ {old}) \cup {updatedFile}
                      /\ issued' = IF updatedFile.share_token \in {NoToken, old.share_token}
                                   THEN issued
                                   ELSE issued \cup {[token |-> updatedFile.share_token,
                                                      id |-> updatedFile.id, by |-> r.user]}
                      /\ resp' = Resp("patch", r.user, 200, [file |-> updatedFile],
                                      [body |-> r.body, prevToken |-> old.share_token,
                                       prevTags |-> old.tags, read |-> r.file])

PatchUpdate(r) ==
    /\ r.op = "patch"
    /\ r.pc = "update"
    /\ UNCHANGED <<storage, signedUploads, nextId, nextUuid, nextToken, removed>>
    /\ Done(r)
    /\ LET hit == Matching(files, UpdateWhere(r))
       IN  \E updateError \in BOOLEAN :
             IF updateError \/ Cardinality(hit) # 1
             THEN /\ resp' = Resp("patch", r.user, 500, Err("Failed to update file"),
                                  [body |-> r.body, read |-> r.file])
                  /\ UNCHANGED <<files, issued>>
             ELSE LET old == CHOOSE f \in hit : TRUE
                      updatedFile == ApplyUpdates(old, r.updates)
                  IN  /\ files' = (files \ {old}) \cup {updatedFile}
                      /\ issued' = IF updatedFile.share_token \in {NoToken, old.share_token}
                                   THEN issued
                                   ELSE issued \cup {[token |-> updatedFile.share_token,
                                                      id |-> updatedFile.id, by |-> r.user]}
                      /\ resp' = Resp("patch", r.user, 200, [file |-> updatedFile],
                                      [body |-> r.body, prevToken |-> old.share_token,
                                       prevTags |-> old.tags, read |-> r.file])

\* ---------------------------------------------------- DELETE /api/files
Delete(u, fileId) ==
    /\ UNCHANGED <<files, storage, signedUploads, nextId, nextUuid, nextToken, issued, removed>>
    /\ IF fileId = 0
       THEN /\ resp' = Resp("delete", u, 400, Err("File ID required"), [id |-> fileId])
            /\ UNCHANGED reqs
       ELSE \E fetchError \in BOOLEAN :
              LET file == SelectOwned(files, fileId, u)
                  r == [op |-> "delete", pc |-> "remove", user |-> u, id |-> fileId,
                        path |-> (CHOOSE f \in file : TRUE).file_path, failed |-> {}]
              IN  IF fetchError \/ Cardinality(file) # 1
                  THEN /\ resp' = Resp("delete", u, 404, Err("File not found"), [id |-> fileId])
                       /\ UNCHANGED reqs
                  ELSE /\ CanStart(r)
                       /\ Start(r)
                       /\ resp' = NoResp

\* A removal that gives up on the request when the bucket reports an error.
DeleteRemoveAbort(r) ==
    /\ r.op = "delete"
    /\ r.pc = "remove"
    /\ UNCHANGED <<files, signedUploads, nextId, nextUuid, nextToken, issued>>
    /\ \E removeError \in BOOLEAN :
         IF removeError
         THEN /\ UNCHANGED <<storage, removed>>
              /\ Done(r)
              /\ resp' = Resp("delete", r.user, 500, Err("Failed to delete file"),
                              [id |-> r.id, path |-> r.path, failed |-> {"remove"}])
         ELSE /\ storage' = storage \ {r.path}
              /\ removed' = IF r.path \notin storage THEN removed
                            ELSE removed \cup {r.path}
              /\ Move(r, [r EXCEPT !.pc = "row"])
              /\ resp' = NoResp

\* await storage.remove([file.file_path]); its result is not read. The
\* handler does not keep it either: failed is the record of the calls that
\* reported an error, for the response to be compared with.
DeleteRemove(r) ==
    /\ r.op = "delete"
    /\ r.pc = "remove"
    /\ UNCHANGED <<files, signedUploads, nextId, nextUuid, nextToken, issued>>
    /\ \E removeError \in BOOLEAN :
         /\ storage' = IF removeError THEN storage ELSE storage \ {r.path}
         /\ removed' = IF removeError \/ r.path \notin storage THEN removed
                       ELSE removed \cup {r.path}
         /\ Move(r, [r EXCEPT !.pc = "row",
                              !.failed = IF removeError THEN {"remove"} ELSE {}])
    /\ resp' = NoResp

\* await from("files").delete().eq("id", fileId); its result is not read.
DeleteRow(r) ==
    /\ r.op = "delete"
    /\ r.pc = "row"
    /\ UNCHANGED <<storage, signedUploads, nextId, nextUuid, nextToken, issued, removed>>
    /\ \E deleteError \in BOOLEAN :
         /\ files' = IF deleteError THEN files
                     ELSE files \ Matching(files, DeleteWhere(r))
         /\ resp' = Resp("delete", r.user, 200, [success |-> TRUE],
                         [id |-> r.id, path |-> r.path,
                          failed |-> IF deleteError THEN r.failed \cup {"delete"}
                                     ELSE r.failed])
    /\ Done(r)

\* ------------------------------------------------------- GET /api/share
\* .select(...).eq("share_token", token).single(): the rows of the lookup
ShareSelectAny(table, token) == table

ShareSelect(table, token) == {r \in table : r.share_token = token}

Share(token) ==
    /\ UNCHANGED <<files, storage, signedUploads, nextId, nextUuid, nextToken, issued, removed>>
    /\ IF token = NoToken
       THEN /\ resp' = Resp("share", NoUser, 400, Err("Share token required"),
                            [token |-> token])
            /\ UNCHANGED reqs
       ELSE \E error \in BOOLEAN :
              LET file == ShareSelect(files, token)
                  r == [op |-> "share", pc |-> "sign", token |-> token,
                        file |-> CHOOSE f \in file : TRUE]
              IN  IF error \/ Cardinality(file) # 1
                  THEN /\ resp' = Resp("share", NoUser, 404,
                                       Err("File not found or not shared"), [token |-> token])
                       /\ UNCHANGED reqs
                  ELSE /\ CanStart(r)
                       /\ Start(r)
                       /\ resp' = NoResp

ShareSign(r) ==
    /\ r.op = "share"
    /\ r.pc = "sign"
    /\ UNCHANGED <<files, storage, signedUploads, nextId, nextUuid, nextToken, issued, removed>>
    /\ Done(r)
    /\ \E ok \in {b \in BOOLEAN : b => r.file.file_path \in storage} :
         resp' = Resp("share", NoUser, 200,
                      [file |-> [id |-> r.file.id, file_name |-> r.file.file_name,
                                 file_size |-> r.file.file_size,
                                 url |-> IF ok THEN SignedUrl(r.file.file_path)
                                         ELSE NullUrl]],
                      [token |-> r.token, row |-> r.file])

\* ------------------------------------------------- auth() gives no userId
\* The first branch of every handler but the share lookup; the response is the
\* same for all of them.
Unauthorized ==
    /\ resp' = Resp("any", NoUser, 401, Err("Unauthorized"), [body |-> <<>>])
    /\ UNCHANGED <<files, storage, signedUploads, nextId, nextUuid, nextToken, reqs, issued, removed>>

\* ------------------------------------------------------------------- inputs
SmallSize == 5 * 1024 * 1024
BigSize == 60 * 1024 * 1024

\* Register: a missing path, and for either user the bare prefix, a fragment of
\* generated name, and every name that is ever generated.
RegisterPaths ==
    {<<>>} \cup
    {UserPrefix(u) \o frag :
        u \in Users, frag \in {<<>>, <<"f">>} \cup {Uuid(k) : k \in 1..MaxUuid}}

\* The declared fileSize is any number the client sends: a size within the
\* ceiling for every path, and one above it and a negative one for the
\* generated names.
RegisterBodies ==
    [filePath : RegisterPaths, fileName : {"x.png"}, fileSize : {SmallSize}]
    \cup [filePath : {UserPrefix(u) \o Uuid(k) : u \in Users, k \in 1..MaxUuid},
          fileName : {"x.png"}, fileSize : {BigSize, 0 - 1}]
    \cup {[filePath |-> UserPrefix(U1) \o Uuid(1), fileName |-> "", fileSize |-> SmallSize]}

UploadUrlBodies ==
    {[fileName |-> "ok.txt", fileSize |-> SmallSize],
     [fileName |-> "ok.txt", fileSize |-> BigSize],
     [fileName |-> "", fileSize |-> SmallSize]}

UploadFiles ==
    {[name |-> "ok.txt", size |-> SmallSize], [name |-> "big.bin", size |-> BigSize]}

Batches == UNION {[1..n -> UploadFiles] : n \in 0..MaxBatch}

\* ------------------------------------------------------------- scheduling
\* The client receives the response; no step of the server is taken between a
\* response and its receipt, so resp is read against the stores it was
\* returned from.
Deliver ==
    /\ resp # NoResp
    /\ resp' = NoResp
    /\ UNCHANGED <<files, storage, signedUploads, nextId, nextUuid, nextToken, reqs, issued, removed>>

Quiet == resp = NoResp

\* Requests served one at a time: one arrives only when none is in flight.
OneAtATime == reqs = {}

\* ------------------------------------------------ the record and its object
\* Requests that create, list and delete records, served one at a time; the
\* mutable columns keep their defaults.
Next ==
    \/ Deliver
    \/ Quiet /\ OneAtATime /\ \E u \in Users, b \in RegisterBodies : Register(u, b)
    \/ Quiet /\ \E r \in reqs : RegisterInsert(r)
    \/ Quiet /\ OneAtATime /\ \E u \in Users, batch \in Batches : Upload(u, batch)
    \/ Quiet /\ \E r \in reqs : UploadBlob(r)
    \/ Quiet /\ \E r \in reqs : UploadInsert(r)
    \/ Quiet /\ \E r \in reqs : UploadCleanup(r)
    \/ Quiet /\ OneAtATime /\ \E u \in Users, b \in UploadUrlBodies : UploadUrl(u, b)
    \/ Quiet /\ \E p \in signedUploads : ClientPut(p)
    \/ Quiet /\ OneAtATime /\ \E u \in Users : List(u)
    \/ Quiet /\ \E r \in reqs : ListSign(r)
    \/ Quiet /\ OneAtATime /\ \E u \in Users, id \in 0..MaxIds : Delete(u, id)
    \/ Quiet /\ \E r \in reqs : DeleteRemove(r)
    \/ Quiet /\ \E r \in reqs : DeleteRow(r)
    \/ Quiet /\ OneAtATime /\ Unauthorized

Spec == Init /\ [][Next]_vars

\* --------------------------------------------- metadata updates and sharing
TagValues == {<<>>, <<"x">>}

\* PATCH bodies: an empty one, is_favorite alone, tags alone, and every
\* combination of the two share-link flags.
PatchShapes ==
    {[fav |-> f, hasTags |-> FALSE, tags |-> <<>>, generate_share_link |-> FALSE,
      remove_share_link |-> FALSE] : f \in {"absent", "true", "false"}}
    \cup
    {[fav |-> "absent", hasTags |-> TRUE, tags |-> t, generate_share_link |-> FALSE,
      remove_share_link |-> FALSE] : t \in TagValues}
    \cup
    {[fav |-> "absent", hasTags |-> FALSE, tags |-> <<>>, generate_share_link |-> g,
      remove_share_link |-> x] : g \in BOOLEAN, x \in BOOLEAN}

PatchBodies == {[id |-> i] @@ sh : i \in 0..MaxIds, sh \in PatchShapes}

\* The bodies that touch the share link only.
SharePatchBodies == {b \in PatchBodies : b.fav = "absent" /\ ~b.hasTags}

\* Records are created by single-file uploads and by registering an object
\* that an upload left in the caller's folder.
MetaBatches == {<<[name |-> "ok.txt", size |-> SmallSize]>>}

MetaRegisterBodies ==
    [filePath : {UserPrefix(u) \o Uuid(k) : u \in Users, k \in 1..MaxUuid},
     fileName : {"x.png"}, fileSize : {SmallSize}]

\* Requests that update and delete records, served one at a time.
NextMeta ==
    \/ Deliver
    \/ Quiet /\ OneAtATime /\ \E u \in Users, batch \in MetaBatches : Upload(u, batch)
    \/ Quiet /\ \E r \in reqs : UploadBlob(r)
    \/ Quiet /\ \E r \in reqs : UploadInsert(r)
    \/ Quiet /\ \E r \in reqs : UploadCleanup(r)
    \/ Quiet /\ OneAtATime /\ \E u \in Users, b \in PatchBodies : Patch(u, b)
    \/ Quiet /\ \E r \in reqs : PatchUpdate(r)
    \/ Quiet /\ OneAtATime /\ \E u \in Users, id \in 0..MaxIds : Delete(u, id)
    \/ Quiet /\ \E r \in reqs : DeleteRemove(r)
    \/ Quiet /\ \E r \in reqs : DeleteRow(r)

SpecMeta == Init /\ [][NextMeta]_vars

\* Requests that share, revoke, look up and delete records, served one at a
\* time.
NextShare ==
    \/ Deliver
    \/ Quiet /\ OneAtATime /\ \E u \in Users, b \in MetaRegisterBodies : Register(u, b)
    \/ Quiet /\ \E r \in reqs : RegisterInsert(r)
    \/ Quiet /\ OneAtATime /\ \E u \in Users, batch \in MetaBatches : Upload(u, batch)
    \/ Quiet /\ \E r \in reqs : UploadBlob(r)
    \/ Quiet /\ \E r \in reqs : UploadInsert(r)
    \/ Quiet /\ \E r \in reqs : UploadCleanup(r)
    \/ Quiet /\ OneAtATime /\ \E u \in Users, b \in SharePatchBodies : Patch(u, b)
    \/ Quiet /\ \E r \in reqs : PatchUpdate(r)
    \/ Quiet /\ OneAtATime /\ \E u \in Users, id \in 0..MaxIds : Delete(u, id)
    \/ Quiet /\ \E r \in reqs : DeleteRemove(r)
    \/ Quiet /\ \E r \in reqs : DeleteRow(r)
    \/ Quiet /\ OneAtATime /\ \E t \in 0..MaxTokens : Share(t)
    \/ Quiet /\ \E r \in reqs : ShareSign(r)

SpecShare == Init /\ [][NextShare]_vars

\* Uploads of files within the ceiling, and deletes that arrive while an
\* upload is in flight: handlers interleave at their awaited calls.
RaceBatches ==
    UNION {[1..n -> {[name |-> "ok.txt", size |-> SmallSize]}] : n \in 1..MaxBatch}

NextRace ==
    \/ Deliver
    \/ Quiet /\ \E u \in Users, batch \in RaceBatches : Upload(u, batch)
    \/ Quiet /\ \E r \in reqs : UploadBlob(r)
    \/ Quiet /\ \E r \in reqs : UploadInsert(r)
    \/ Quiet /\ \E r \in reqs : UploadCleanup(r)
    \/ Quiet /\ \E u \in Users, id \in 0..MaxIds : Delete(u, id)
    \/ Quiet /\ \E r \in reqs : DeleteRemove(r)
    \/ Quiet /\ \E r \in reqs : DeleteRow(r)

SpecRace == Init /\ [][NextRace]_vars

\* PATCH bodies that replace the tags, with two tag lists neither of which
\* contains the other.
WriteTagValues == {<<"x">>, <<"y">>}

WritePatchBodies ==
    {[id |-> i, fav |-> "absent", hasTags |-> TRUE, tags |-> t,
      generate_share_link |-> FALSE, remove_share_link |-> FALSE] :
        i \in 1..MaxIds, t \in WriteTagValues}

\* Updates and deletes of both users that arrive while another update or
\* delete is in flight: handlers interleave at their awaited calls.
NextWrites ==
    \/ Deliver
    \/ Quiet /\ \E u \in Users, batch \in MetaBatches : Upload(u, batch)
    \/ Quiet /\ \E r \in reqs : UploadBlob(r)
    \/ Quiet /\ \E r \in reqs : UploadInsert(r)
    \/ Quiet /\ \E r \in reqs : UploadCleanup(r)
    \/ Quiet /\ \E u \in Users, b \in WritePatchBodies : Patch(u, b)
    \/ Quiet /\ \E r \in reqs : PatchUpdate(r)
    \/ Quiet /\ \E u \in Users, id \in 1..MaxIds : Delete(u, id)
    \/ Quiet /\ \E r \in reqs : DeleteRemove(r)
    \/ Quiet /\ \E r \in reqs : DeleteRow(r)

SpecWrites == Init /\ [][NextWrites]_vars

\* Requests that create, update, list and look up records, served one at a
\* time; no record is deleted.
NextFrame ==
    \/ Deliver
    \/ Quiet /\ OneAtATime /\ \E u \in Users, b \in MetaRegisterBodies : Register(u, b)
    \/ Quiet /\ \E r \in reqs : RegisterInsert(r)
    \/ Quiet /\ OneAtATime /\ \E u \in Users, batch \in MetaBatches : Upload(u, batch)
    \/ Quiet /\ \E r \in reqs : UploadBlob(r)
    \/ Quiet /\ \E r \in reqs : UploadInsert(r)
    \/ Quiet /\ \E r \in reqs : UploadCleanup(r)
    \/ Quiet /\ OneAtATime /\ \E u \in Users, b \in PatchBodies : Patch(u, b)
    \/ Quiet /\ \E r \in reqs : PatchUpdate(r)
    \/ Quiet /\ OneAtATime /\ \E u \in Users : List(u)
    \/ Quiet /\ \E r \in reqs : ListSign(r)
    \/ Quiet /\ OneAtATime /\ \E t \in 0..MaxTokens : Share(t)
    \/ Quiet /\ \E r \in reqs : ShareSign(r)

SpecFrame == Init /\ [][NextFrame]_vars

\* ------------------------------------------- extension of the storage name
\* The derivation of ext that POST /api/files and POST /api/files/upload-url
\* share. A string is the sequence of its characters.
UpperCase == <<"A", "B", "C", "D", "E", "F", "G", "H", "I", "J", "K", "L", "M",
               "N", "O", "P", "Q", "R", "S", "T", "U", "V", "W", "X", "Y", "Z">>
LowerCase == <<"a", "b", "c", "d", "e", "f", "g", "h", "i", "j", "k", "l", "m",
               "n", "o", "p", "q", "r", "s", "t", "u", "v", "w", "x", "y", "z">>
Digits == {"0", "1", "2", "3", "4", "5", "6", "7", "8", "9"}
LowerAlnum == {LowerCase[k] : k \in 1..26} \cup Digits

\* s.toLowerCase()
ToLowerCase(s) ==
    [i \in 1..Len(s) |->
        IF \E k \in 1..26 : UpperCase[k] = s[i]
        THEN LowerCase[CHOOSE k \in 1..26 : UpperCase[k] = s[i]]
        ELSE s[i]]

\* s.replace(/[^a-z0-9]/g, "")
StripNonAlnum(s) == SelectSeq(s, LAMBDA c : c \in LowerAlnum)

\* s.split(sep).length
Parts(s, sep) == 1 + Cardinality({i \in 1..Len(s) : s[i] = sep})

\* s.split(sep).pop(): what follows the last sep, all of s when it has none
Pop(s, sep) ==
    LET at == {i \in 1..Len(s) : s[i] = sep}
        last == IF at = {} THEN 0 ELSE CHOOSE i \in at : \A j \in at : j <= i
    IN  SubSeq(s, last + 1, Len(s))

Bin == <<"b", "i", "n">>

\* ext after the block on the file name
NameExt(name) ==
    IF Parts(name, ".") > 1
    THEN LET rawExt == IF Pop(name, ".") = <<>> THEN Bin ELSE Pop(name, ".")
             clean == StripNonAlnum(ToLowerCase(rawExt))
         IN  IF clean = <<>> THEN Bin ELSE clean
    ELSE Bin

\* file.type.split("/").pop()?.replace(/[^a-z0-9]/g, "")
MimeExt(type) == StripNonAlnum(Pop(type, "/"))

\* ext as it enters the storage name
Ext(name, type) ==
    LET ext == NameExt(name)
    IN  IF ext = <<>> \/ ext = Bin
        THEN IF MimeExt(type) # <<>> THEN MimeExt(type) ELSE ext
        ELSE ext

\* File names and MIME types: every string of a few characters over a
\* letter, an upper-case letter, a separator and a character outside the
\* alphabet, and the usual ones.
NameChars == {"x", "B", ".", "-"}
TypeChars == {"z", "P", "/", "+"}

FileNames ==
    UNION {[1..n -> NameChars] : n \in 0..MaxNameLen}
    \cup {<<"x", ".", "b", "i", "n">>, <<"x", ".", "p", "n", "g">>,
          <<"x", ".", "t", "a", "r", ".", "G", "Z">>, <<"x", ".", "b", "i", "n", "-">>}

FileTypes ==
    UNION {[1..n -> TypeChars] : n \in 0..MaxTypeLen}
    \cup {<<"a", "p", "p", "l", "i", "c", "a", "t", "i", "o", "n", "/", "z", "i", "p">>,
          <<"i", "m", "a", "g", "e", "/", "p", "n", "g">>,
          <<"i", "m", "a", "g", "e", "/", "s", "v", "g", "+", "x", "m", "l">>}

\* The handler derives the extension of one file; resp shows it with the
\* name and the type it was derived from.
DeriveExt(name, type) ==
    /\ resp' = Resp("ext", NoUser, 200, [ext |-> Ext(name, type)],
                    [name |-> name, type |-> type])
    /\ UNCHANGED <<files, storage, signedUploads, nextId, nextUuid, nextToken, reqs,
                   issued, removed>>

NextExt ==
    \/ Deliver
    \/ Quiet /\ \E name \in FileNames, type \in FileTypes : DeriveExt(name, type)

SpecExt == Init /\ [][NextExt]_vars

\* =================================================================== claims
\* The prefix of an owner, stated position by position.
HasOwnerPrefix(path, u) ==
    /\ Len(path) > Len(u)
    /\ \A i \in 1..Len(u) : path[i] = u[i]
    /\ path[Len(u) + 1] = "/"

\* C1: in every reachable state, every metadata record's file_path names a
\* blob that exists in the blob store.
C1_RecordHasBlob == \A f \in files : f.file_path \in storage

\* C2: in every reachable state, every record's file_path begins with its
\* owner's user_id followed by "/".
C2_OwnerPrefix == \A f \in files : HasOwnerPrefix(f.file_path, f.user_id)

\* A record made by the upload of one user next to a record made by the
\* registration of the other.
C2_Witness ==
    /\ resp.op = "register"
    /\ resp.status = 200
    /\ \E f \in files : /\ f.file_name = "ok.txt"
                        /\ f.user_id # resp.user
                        /\ f.file_path # resp.body.file.file_path

\* C3: a Register whose filePath does not begin with the caller's prefix is
\* answered 403 (400 when a required field is missing), is answered before any
\* call to the blob store, adds no record and never reaches the insert.
C3_ForeignPathForbidden ==
    [][ /\ \A r \in reqs' : r.op = "register" => HasOwnerPrefix(r.body.filePath, r.user)
        /\ (resp'.op = "register" /\ ~HasOwnerPrefix(resp'.req.body.filePath, resp'.user))
           => /\ resp'.status \in {400, 403}
              /\ (resp'.req.body.filePath # <<>> /\ resp'.req.body.fileName # "")
                 => (resp'.status = 403 /\ resp'.body = Err("Invalid file path"))
              /\ resp'.req.storeCalls = 0
              /\ UNCHANGED <<files, storage, reqs>> ]_vars

\* The caller names the existing blob of another user and is refused.
C3_Witness ==
    /\ resp.op = "register"
    /\ resp.status = 403
    /\ resp.user = U1
    /\ resp.req.body.filePath = UserPrefix(U2) \o Uuid(1)
    /\ resp.req.body.filePath \in storage
    /\ files = {}

\* C4: Register creates a record only if the referenced blob exists at the
\* given path: no registration passes the existence check, and none is
\* answered 200, for a path at which the store holds no blob.
C4_RegisterOnlyExistingBlob ==
    /\ \A r \in reqs : r.op = "register" => r.body.filePath \in storage
    /\ (resp.op = "register" /\ resp.status = 200)
       => resp.body.file.file_path \in storage

\* C5: List hands back exactly the records whose user_id is the caller's:
\* the rows it reads are the caller's rows of the table at the read, and the
\* files of its answer are those rows.
C5_ListOwnerIsolation ==
    [][ /\ \A r \in reqs' \ reqs :
             r.op = "list" => r.rows = {f \in files : f.user_id = r.user}
        /\ (resp'.op = "list" /\ resp'.status = 200)
           => \E r \in reqs \ reqs' :
                /\ r.op = "list"
                /\ r.user = resp'.user
                /\ {e.file : e \in resp'.body.files} = r.rows
                /\ \A e \in resp'.body.files : e.file.user_id = resp'.user ]_vars

\* A listing with a record in it, while the other user has a record too.
C5_Witness ==
    /\ resp.op = "list"
    /\ resp.status = 200
    /\ resp.body.files # {}
    /\ \E f \in files : f.user_id # resp.user

\* The caller owns a record of that id.
OwnsRecord(table, id, u) == \E f \in table : f.id = id /\ f.user_id = u

\* C6: a PATCH or DELETE naming an id that no record has, or that a record of
\* another user has, is answered 404 with one and the same body, changes
\* neither store and never reaches the write.
C6_NotOwnedIsNotFound ==
    [][ /\ \A r \in reqs' \ reqs :
             /\ r.op = "patch" => OwnsRecord(files, r.body.id, r.user)
             /\ (r.op = "delete" /\ r.pc = "remove") => OwnsRecord(files, r.id, r.user)
        /\ (resp'.op \in {"patch", "delete"} /\ reqs' = reqs /\ resp'.req.id # 0
               /\ ~OwnsRecord(files, resp'.req.id, resp'.user))
           => /\ resp'.status = 404
              /\ resp'.body = Err("File not found")
              /\ UNCHANGED <<files, storage>> ]_vars

\* A DELETE by a user who does not own the record it names: the record and its
\* blob are still there.
C6_Witness ==
    /\ resp.op = "delete"
    /\ resp.status = 404
    /\ \E f \in files : /\ f.id = resp.req.id
                        /\ f.user_id # resp.user
                        /\ f.file_path \in storage

\* C7: a PATCH changes only the fields its body supplies. The record after a
\* successful update is the record before it with is_favorite, tags and
\* share_token replaced where the body supplies them and every other field and
\* every other record as they were; is_favorite set to v and then to its
\* negation is therefore the value it had.
C7_PatchOnlySuppliedFields ==
    [][ \A r \in reqs \ reqs' :
          r.op = "patch" =>
            \E old \in files :
              /\ old.id = r.body.id
              /\ \/ /\ resp'.status = 500
                    /\ files' = files
                 \/ /\ resp'.status = 200
                    /\ LET b == r.body
                           new == [old EXCEPT
                               !.is_favorite = IF b.fav = "absent" THEN old.is_favorite
                                               ELSE b.fav = "true",
                               !.tags = IF b.hasTags THEN b.tags ELSE old.tags,
                               !.share_token =
                                   IF b.remove_share_link THEN NoToken
                                   ELSE IF b.generate_share_link THEN resp'.body.file.share_token
                                   ELSE old.share_token]
                       IN  /\ files' = (files \ {old}) \cup {new}
                           /\ resp'.body.file = new ]_vars

\* A PATCH of is_favorite alone on a record that carries tags and a token.
C7_Witness ==
    /\ resp.op = "patch"
    /\ resp.status = 200
    /\ resp.req.body.fav # "absent"
    /\ ~resp.req.body.hasTags
    /\ ~resp.req.body.generate_share_link
    /\ ~resp.req.body.remove_share_link
    /\ resp.body.file.tags # <<>>
    /\ resp.body.file.share_token # NoToken
    /\ Cardinality(files) = 2

\* C8: generating a share token for a record that already has one replaces
\* it: after the update no record carries the old token, the record carries
\* the new one, a token is carried by at most one record, and a share lookup by
\* a token that no record carries is answered 404.
C8_RegenerateInvalidatesOld ==
    /\ [][ (/\ resp'.op = "patch"
            /\ resp'.status = 200
            /\ resp'.req.body.generate_share_link
            /\ ~resp'.req.body.remove_share_link
            /\ resp'.req.prevToken # NoToken)
           => /\ resp'.body.file.share_token \notin {NoToken, resp'.req.prevToken}
              /\ \A f \in files' : f.share_token # resp'.req.prevToken
              /\ \E f \in files' : /\ f.id = resp'.req.body.id
                                   /\ f.share_token = resp'.body.file.share_token ]_vars
    /\ [][ (/\ resp'.op = "share"
            /\ \A f \in files : f.share_token # resp'.req.token)
           => resp'.status \in {400, 404} ]_vars
    /\ [](\A f, g \in files :
             (f.share_token # NoToken /\ f.share_token = g.share_token) => f = g)

\* A second token has just replaced the first one of a record.
C8_Witness ==
    /\ resp.op = "patch"
    /\ resp.status = 200
    /\ resp.req.body.generate_share_link
    /\ resp.req.prevToken # NoToken
    /\ resp.body.file.share_token # resp.req.prevToken
    /\ [token |-> resp.req.prevToken, id |-> resp.body.file.id, by |-> resp.user] \in issued

\* The tokens that were stored on a record and that no record carries now.
Retired == {i.token : i \in issued} \ {f.share_token : f \in files}

\* C9: revoking a record's share token invalidates it: after the update the
\* record has no token and no record carries the revoked one, and a lookup by
\* a token that was once stored and is carried no more is answered 404 with
\* the body of a lookup by a token that never existed.
C9_RevokeInvalidates ==
    /\ [][ (/\ resp'.op = "patch"
            /\ resp'.status = 200
            /\ resp'.req.body.remove_share_link)
           => /\ resp'.body.file.share_token = NoToken
              /\ \A f \in files' : f.id = resp'.req.body.id => f.share_token = NoToken
              /\ resp'.req.prevToken # NoToken
                 => \A f \in files' : f.share_token # resp'.req.prevToken ]_vars
    /\ [][ (/\ resp'.op = "share"
            /\ resp'.req.token # NoToken
            /\ \/ resp'.req.token \in Retired
               \/ resp'.req.token >= nextToken)
           => /\ resp'.status = 404
              /\ resp'.body = Err("File not found or not shared")
              /\ UNCHANGED <<files, storage, reqs>> ]_vars

\* A lookup by a token that its record's owner has revoked: the record is
\* there, without a token.
C9_Witness ==
    /\ resp.op = "share"
    /\ resp.status = 404
    /\ \E i \in issued :
         /\ i.token = resp.req.token
         /\ \E f \in files : f.id = i.id /\ f.share_token = NoToken

\* C10: a record is shareable only while it has a share token issued by its
\* owner: a record made by Upload or Register starts without one, a token on
\* a record was stored there by a PATCH of the record's owner, and the share
\* lookup answers with a record only for the token that the record carries.
C10_ShareableOnlyWithToken ==
    /\ [][ \A f \in files' :
             (\A g \in files : g.id # f.id) => f.share_token = NoToken ]_vars
    /\ [](\A f \in files :
             f.share_token # NoToken
             => [token |-> f.share_token, id |-> f.id, by |-> f.user_id] \in issued)
    /\ [][ \A r \in reqs' \ reqs :
             r.op = "share" => (r.token # NoToken /\ r.file \in files
                                /\ r.file.share_token = r.token) ]_vars
    /\ []((resp.op = "share" /\ resp.status = 200)
             => (resp.req.row.share_token = resp.req.token
                 /\ resp.req.token # NoToken
                 /\ resp.body.file.id = resp.req.row.id))

\* A lookup answered with a record that Register made and its owner shared.
C10_Witness ==
    /\ resp.op = "share"
    /\ resp.status = 200
    /\ resp.req.row \in files
    /\ resp.req.row.file_name = "x.png"
    /\ \E f \in files : f.share_token = NoToken

\* The string sub occurs in the string s.
Contains(s, sub) ==
    \E i \in 1..(Len(s) - Len(sub) + 1) : SubSeq(s, i, i + Len(sub) - 1) = sub

TooLarge(errors) == {k \in 1..Len(errors) : errors[k][2] = "File too large (max 50MB)"}

\* C12: in an Upload, every file above the 50 MiB ceiling gets exactly one
\* error entry naming it, no record and no blob write, and every other file of
\* the batch still gets its own outcome, a record or an error of its own.
C12_OversizeSkippedAlone ==
    /\ []((resp.op = "upload" /\ resp.status = 200)
          => LET b == resp.req.files
                 up == resp.body.uploaded
                 er == resp.body.errors
                 big == {i \in 1..Len(b) : b[i].size > 50 * 1024 * 1024}
             IN  /\ Cardinality(TooLarge(er)) = Cardinality(big)
                 /\ \A k \in TooLarge(er) : \E i \in big : b[i].name = er[k][1]
                 /\ \A i \in big : \E k \in TooLarge(er) : b[i].name = er[k][1]
                 /\ \A k \in 1..Len(up) :
                      /\ up[k].file_size <= 50 * 1024 * 1024
                      /\ \E i \in (1..Len(b)) \ big :
                           b[i].name = up[k].file_name /\ b[i].size = up[k].file_size
                 /\ Len(up) + (Len(er) - Cardinality(TooLarge(er)))
                      = Len(b) - Cardinality(big))
    /\ [][ \A r \in reqs \ reqs' :
             (r.op = "upload" /\ (storage' # storage \/ files' # files))
             => r.files[r.i].size <= 50 * 1024 * 1024 ]_vars

\* The batch [5 MB ok.txt, 60 MB big.bin]: one record for ok.txt and one
\* error naming big.bin.
C12_Witness ==
    /\ resp.op = "upload"
    /\ resp.status = 200
    /\ resp.req.files = <<[name |-> "ok.txt", size |-> SmallSize],
                          [name |-> "big.bin", size |-> BigSize]>>
    /\ Len(resp.body.uploaded) = 1
    /\ resp.body.uploaded[1].file_name = "ok.txt"
    /\ resp.body.uploaded[1] \in files
    /\ resp.body.errors = << <<"big.bin", "File too large (max 50MB)">> >>

\* C13: the success flag of an Upload response is true exactly when at
\* least one file of the batch was stored and recorded, that is when the
\* uploaded list is not empty, its records being rows of the table with a blob
\* in the bucket; a batch with files is answered 200 even when every file
\* fails, then with success false.
C13_SuccessIffOneStored ==
    resp.op = "upload"
    => /\ resp.status = IF Len(resp.req.files) = 0 THEN 400 ELSE 200
       /\ resp.status = 200
          => /\ resp.body.success = (Len(resp.body.uploaded) > 0)
             /\ resp.body.success
                  = (\E f \in files : /\ f.file_path \in storage
                                      /\ \E k \in 1..Len(resp.body.uploaded) :
                                           resp.body.uploaded[k] = f)

\* Two files, both failing: 200 with success false.
C13_Witness ==
    /\ resp.op = "upload"
    /\ resp.status = 200
    /\ Len(resp.req.files) = 2
    /\ \A i \in 1..2 : resp.req.files[i].size = SmallSize
    /\ resp.body.success = FALSE
    /\ Len(resp.body.errors) = 2

\* C14: when the insert of an uploaded file fails, the handler's next call is
\* the removal of the blob it has just written; that call leaves the table
\* alone, takes away that blob or nothing, and the handler goes on with the
\* file reported in errors; no record of the file exists afterwards.
C14_UploadCompensation ==
    [][ \A r \in reqs \ reqs' :
          r.op = "upload" =>
            /\ r.pc = "insert"
               => \/ \E f \in files' \ files : f.file_path = r.path
                  \/ /\ UNCHANGED <<files, storage>>
                     /\ \E r2 \in reqs' \ reqs :
                          /\ r2.op = "upload"
                          /\ r2.pc = "cleanup"
                          /\ r2.path = r.path
                          /\ r2.i = r.i
            /\ r.pc = "cleanup"
               => /\ files' = files
                  /\ \A f \in files' : f.file_path # r.path
                  /\ storage' \in {storage, storage \ {r.path}}
                  /\ LET er == IF resp'.op = "upload" THEN resp'.body.errors
                               ELSE (CHOOSE r2 \in reqs' \ reqs : TRUE).errors
                     IN  /\ Len(er) > Len(r.errors)
                         /\ SubSeq(er, 1, Len(r.errors)) = r.errors
                         /\ er[Len(r.errors) + 1]
                              = <<r.files[r.i].name, "Failed to save metadata">> ]_vars

\* The blob was written, the insert failed and the removal succeeded: the
\* file is reported, and neither a record nor a blob of it is left.
C14_Witness ==
    /\ resp.op = "upload"
    /\ resp.status = 200
    /\ resp.body.errors = << <<"ok.txt", "Failed to save metadata">> >>
    /\ resp.body.uploaded = <<>>
    /\ nextUuid = 2
    /\ storage = {}
    /\ files = {}

\* C15 as stated: every record in the uploaded list of an Upload response has
\* a blob at its file_path when the response is returned, also when a DELETE
\* of the same owner runs while the upload handles the rest of the batch.
C15_UploadedHaveBlobs ==
    (resp.op = "upload" /\ resp.status = 200)
    => \A k \in 1..Len(resp.body.uploaded) :
         resp.body.uploaded[k].file_path \in storage

\* C15, amended: every record in the uploaded list of an Upload response has
\* a blob at its file_path when the response is returned, unless a DELETE
\* has removed that blob while the upload was still running.
C15_UploadedHaveBlobsUnlessDeleted ==
    (resp.op = "upload" /\ resp.status = 200)
    => \A k \in 1..Len(resp.body.uploaded) :
         \/ resp.body.uploaded[k].file_path \in storage
         \/ resp.body.uploaded[k].file_path \in removed

\* An upload of two files answered with both records, the first of which a
\* DELETE has taken the blob of in the meantime.
C15_Witness ==
    /\ resp.op = "upload"
    /\ resp.status = 200
    /\ Len(resp.body.uploaded) = 2
    /\ resp.body.uploaded[1].file_path \in removed
    /\ resp.body.uploaded[1].file_path \notin storage
    /\ resp.body.uploaded[2].file_path \in storage

\* C16: whenever DELETE answers success for a record, the blob at its
\* file_path and its row are both gone (and so no later List of the owner
\* can include it), also when the removal from the bucket or the delete from
\* the table has reported an error.
C16_DeleteSuccessRemovesBoth ==
    (resp.op = "delete" /\ resp.status = 200 /\ resp.body.success)
    => /\ resp.req.path \notin storage
       /\ \A f \in files : f.id # resp.req.id
       /\ SelectByOwner(files, resp.user) \cap {f \in files : f.id = resp.req.id} = {}

\* C17: Register, PATCH, DELETE and the share lookup answer with a success
\* payload only if no call to the bucket or the table made for the request has
\* reported a failure.
C17_SingleEntityFailsWhole ==
    /\ (resp.op = "delete" /\ resp.status = 200) => resp.req.failed = {}
    /\ (resp.op = "share" /\ resp.status = 200) => resp.body.file.url # NullUrl
    /\ (resp.op = "register" /\ resp.status = 200) => resp.body.file \in files
    /\ (resp.op = "patch" /\ resp.status = 200) => resp.body.file \in files

\* C18: a PATCH that asks for generate_share_link and remove_share_link at
\* once draws a token and then overwrites it with null: the update it sends
\* sets share_token to null, and after it the record has no token, whatever
\* token it had.
C18_GenerateThenRevoke ==
    [][ /\ \A r \in reqs' \ reqs :
             (r.op = "patch" /\ r.body.generate_share_link /\ r.body.remove_share_link)
             => /\ nextToken' = nextToken + 1
                /\ r.updates.setToken
                /\ r.updates.share_token = NoToken
        /\ (/\ resp'.op = "patch"
            /\ resp'.status = 200
            /\ resp'.req.body.generate_share_link
            /\ resp'.req.body.remove_share_link)
           => /\ resp'.body.file.share_token = NoToken
              /\ \E f \in files' : f.id = resp'.req.body.id /\ f.share_token = NoToken
              /\ \A f \in files' : f.id = resp'.req.body.id => f.share_token = NoToken ]_vars

\* Both flags on a record that carried a token: it carries none now.
C18_Witness ==
    /\ resp.op = "patch"
    /\ resp.status = 200
    /\ resp.req.body.generate_share_link
    /\ resp.req.body.remove_share_link
    /\ resp.req.prevToken # NoToken
    /\ resp.body.file.share_token = NoToken
    /\ resp.body.file \in files

\* C19: a List that has read the caller's rows answers 200 with every one of
\* them, whatever signing fails: each record carries either the signed URL of
\* its own path or null, decided for that record alone.
C19_ListSurvivesSigningFailure ==
    [][ \A r \in reqs \ reqs' :
          r.op = "list" =>
            /\ resp'.op = "list"
            /\ resp'.status = 200
            /\ {e.file : e \in resp'.body.files} = r.rows
            /\ Cardinality(resp'.body.files) = Cardinality(r.rows)
            /\ \A e \in resp'.body.files :
                 /\ e.url \in {NullUrl, [path |-> e.file.file_path, ttl |-> 3600]}
                 /\ e.file.file_path \notin storage => e.url = NullUrl ]_vars

\* Two records listed, both with their blob: one signing failed, the other
\* record has its URL.
C19_Witness ==
    /\ resp.op = "list"
    /\ resp.status = 200
    /\ Cardinality(resp.body.files) = 2
    /\ \A e \in resp.body.files : e.file.file_path \in storage
    /\ \E e \in resp.body.files : e.url = NullUrl
    /\ \E e \in resp.body.files : e.url # NullUrl

\* C20: every record of the files table, made by Upload or by Register, has
\* a file_size of at least 0 and at most 50 MiB (52428800 bytes).
C20_SizeWithinCeiling ==
    \A f \in files : f.file_size >= 0 /\ f.file_size <= 52428800

\* C21: no two records ever have the same file_path, whatever Uploads and
\* Registers have been served, so that a DELETE answered with its blob gone
\* has taken the blob of no other record.
C21_PathsUnique ==
    /\ \A f, g \in files : f.file_path = g.file_path => f = g
    /\ (resp.op = "delete" /\ resp.status = 200 /\ resp.req.path \notin storage)
       => \A f \in files : f.file_path = resp.req.path => f.id = resp.req.id

\* C22: the write statement of every PATCH and DELETE that has passed its
\* ownership read filters on the owner as well as on the id.
C22_WritesFilterOwner ==
    \A r \in reqs :
        /\ r.op = "patch" =>
             /\ "user_id" \in DOMAIN UpdateWhere(r)
             /\ UpdateWhere(r).user_id = r.user
        /\ r.op = "delete" =>
             /\ "user_id" \in DOMAIN DeleteWhere(r)
             /\ DeleteWhere(r).user_id = r.user

\* C23: an upload handler reaches the insert of a file only in the step whose
\* blob write has stored the file's blob; a blob write that stores nothing
\* records the file in errors and moves on without an insert; and a record is
\* added by an upload handler only from its insert, at the path of that blob.
C23_WriteBeforeRegister ==
    [][ /\ \A q \in reqs' \ reqs :
             (q.op = "upload" /\ q.pc = "insert")
             => /\ q.path \in storage' \ storage
                /\ \E r \in reqs \ reqs' :
                     r.op = "upload" /\ r.pc = "blob" /\ r.i = q.i
        /\ \A r \in reqs \ reqs' :
             (r.op = "upload" /\ r.pc = "blob" /\ storage' = storage)
             => /\ UNCHANGED <<files, nextId>>
                /\ \A q \in reqs' \ reqs : q.op = "upload" => q.i > r.i
                /\ LET er == IF resp'.op = "upload" THEN resp'.body.errors
                             ELSE (CHOOSE q \in reqs' \ reqs : TRUE).errors
                   IN  \E k \in 1..Len(er) : er[k] = <<r.files[r.i].name, "Upload failed">>
        /\ \A r \in reqs \ reqs', f \in files' \ files :
             r.op = "upload"
             => r.pc = "insert" /\ f.file_path = r.path /\ r.path \in storage
      ]_vars

\* A single file whose blob write failed: reported, with no row and no blob,
\* and no id consumed by an insert.
C23_Witness ==
    /\ resp.op = "upload"
    /\ resp.status = 200
    /\ Len(resp.req.files) = 1
    /\ resp.body.errors = << <<"ok.txt", "Upload failed">> >>
    /\ resp.body.uploaded = <<>>
    /\ files = {}
    /\ storage = {}
    /\ nextId = 1

\* C24: a DELETE that has passed its ownership read first calls the removal
\* of the blob, which leaves the table alone, and then, whether or not the
\* removal reported an error, calls the delete of the row, which leaves the
\* bucket alone: the blob is never put back and the row delete is never
\* skipped.
C24_DeleteBlobThenRow ==
    [][ /\ \A q \in reqs' \ reqs :
             q.op = "delete"
             => \/ q.pc = "remove" /\ \A r \in reqs \ reqs' : FALSE
                \/ /\ q.pc = "row"
                   /\ \E r \in reqs \ reqs' :
                        r.op = "delete" /\ r.pc = "remove" /\ r.id = q.id
        /\ \A r \in reqs \ reqs' :
             r.op = "delete"
             => /\ r.pc = "remove"
                   => /\ files' = files
                      /\ storage' \in {storage, storage \ {r.path}}
                      /\ resp'.op = "none"
                      /\ \E q \in reqs' \ reqs :
                           /\ q.op = "delete" /\ q.pc = "row"
                           /\ q.id = r.id /\ q.path = r.path
                           /\ "remove" \in q.failed => storage' = storage
                /\ r.pc = "row"
                   => /\ storage' = storage
                      /\ files' \in {files, {f \in files : f.id # r.id}}
                      /\ resp'.op = "delete"
      ]_vars

\* The removal reported an error and the row was deleted all the same: the
\* blob is still there, the row is not.
C24_Witness ==
    /\ resp.op = "delete"
    /\ resp.status = 200
    /\ resp.req.failed = {"remove"}
    /\ resp.req.path \in storage
    /\ \A f \in files : f.id # resp.req.id

\* C25: when PATCH requests that replace the tags of one record interleave,
\* each update that is applied leaves the record with exactly the tags of its
\* own request, and nothing else changes a record's tags: the tags at the end
\* are those of the update applied last, with nothing of the other request.
C25_LastWriteWins ==
    [][ /\ (resp'.op = "patch" /\ resp'.status = 200 /\ resp'.req.body.hasTags)
           => /\ \E g \in files' : g.id = resp'.req.body.id
              /\ \A g \in files' : g.id = resp'.req.body.id
                                   => g.tags = resp'.req.body.tags
        /\ \A f \in files, g \in files' :
             (f.id = g.id /\ f.tags # g.tags)
             => /\ resp'.op = "patch"
                /\ resp'.status = 200
                /\ resp'.req.body.id = f.id
                /\ g.tags = resp'.req.body.tags
      ]_vars

\* Two PATCHes of one record, both read while it had no tags; the one with
\* tags y was applied first, the one with tags x last, and the record has x.
C25_Witness ==
    /\ resp.op = "patch"
    /\ resp.status = 200
    /\ resp.req.body.tags = <<"x">>
    /\ resp.req.read.tags = <<>>
    /\ resp.req.prevTags = <<"y">>
    /\ \E f \in files : f.id = resp.req.body.id /\ f.tags = <<"x">>

\* C26: no step of an Upload, Register, PATCH, List or share lookup changes
\* the user_id or the file_path of a record that exists before and after it;
\* of a record's columns a PATCH rewrites is_favorite, tags and share_token
\* only.
C26_OwnerAndPathImmutable ==
    [][ \A f \in files, g \in files' :
          f.id = g.id
          => /\ g.user_id = f.user_id
             /\ g.file_path = f.file_path
             /\ g.file_name = f.file_name
             /\ g.file_size = f.file_size
      ]_vars

\* A record of the first user after PATCHes have rewritten its three
\* updatable fields, with a record of the other user in the table and a share
\* lookup answered: it still has the owner and the path it was uploaded with.
C26_Witness ==
    /\ resp.op = "share"
    /\ resp.status = 200
    /\ \E f \in files :
         /\ f.is_favorite
         /\ f.tags = <<"x">>
         /\ f.share_token # NoToken
         /\ f.user_id = U1
         /\ f.file_path = UploadPath(U1, Uuid(1))
         /\ f.file_name = "ok.txt"
    /\ \E g \in files : g.user_id = U2

\* C27: the extension is the sanitized, lower-cased trailing dot-segment of
\* the file name whenever that segment is present and does not sanitize to
\* nothing (so x.bin with type application/zip gets bin); otherwise it is the
\* sanitized MIME subtype, and bin only when that is empty too; it is never
\* empty and has only characters of [a-z0-9].
C27_ExtensionFromName ==
    resp.op = "ext"
    => LET name == resp.req.name
           type == resp.req.type
           ext == resp.body.ext
           seg == IF Parts(name, ".") > 1
                  THEN StripNonAlnum(ToLowerCase(Pop(name, ".")))
                  ELSE <<>>
       IN  /\ seg # <<>> => ext = seg
           /\ (seg = <<>> /\ MimeExt(type) # <<>>) => ext = MimeExt(type)
           /\ (seg = <<>> /\ MimeExt(type) = <<>>) => ext = Bin
           /\ ext # <<>>
           /\ \A i \in 1..Len(ext) : ext[i] \in LowerAlnum

\* C28: an Upload response accounts for every file of the batch exactly once:
\* the uploaded and errors lists together have as many entries as the batch
\* has files, each file name as often as the batch has it; and a handler
\* still at work on file i has accounted for exactly the i - 1 files before.
C28_EveryFileOnce ==
    /\ (resp.op = "upload" /\ resp.status = 200)
       => LET b == resp.req.files
              up == resp.body.uploaded
              er == resp.body.errors
          IN  /\ Len(up) + Len(er) = Len(b)
              /\ \A i \in 1..Len(b) :
                   Cardinality({k \in 1..Len(up) : up[k].file_name = b[i].name})
                   + Cardinality({k \in 1..Len(er) : er[k][1] = b[i].name})
                   = Cardinality({j \in 1..Len(b) : b[j].name = b[i].name})
    /\ \A r \in reqs :
         r.op = "upload" => Len(r.uploaded) + Len(r.errors) = r.i - 1

\* A batch of two files within the ceiling: the first one's blob write failed,
\* the second was stored and recorded.
C28_Witness ==
    /\ resp.op = "upload"
    /\ resp.status = 200
    /\ Len(resp.req.files) = 2
    /\ resp.body.errors = << <<resp.req.files[1].name, "Upload failed">> >>
    /\ Len(resp.body.uploaded) = 1
    /\ resp.body.uploaded[1] \in files
    /\ resp.req.files[2].size = SmallSize

\* C29: under every interleaving of the PATCH and DELETE handlers of two
\* users, a handler that has passed its ownership read aims at no record of
\* another user, and each of its steps changes or removes only rows of its own
\* user and removes only blobs under its own user's prefix, although its write
\* statements select by id alone.
C29_NoCrossTenantWrite ==
    /\ [](\A r \in reqs, f \in files :
            /\ (r.op = "patch" /\ f \in Matching(files, UpdateWhere(r)))
               => f.user_id = r.user
            /\ (r.op = "delete" /\ f \in Matching(files, DeleteWhere(r)))
               => f.user_id = r.user)
    /\ [][ \A r \in reqs \ reqs' :
             r.op \in {"patch", "delete"}
             => /\ \A f \in files \ files' : f.user_id = r.user
                /\ \A g \in files' \ files : g.user_id = r.user
                /\ \A p \in storage \ storage' :
                     /\ HasOwnerPrefix(p, r.user)
                     /\ \A u \in Users \ {r.user} : ~HasOwnerPrefix(p, u)
         ]_vars

\* A user's PATCH or DELETE of the other user's record is turned away while a
\* handler of the owner is in flight on that record, which is still whole.
C29_Witness ==
    /\ resp.op \in {"patch", "delete"}
    /\ resp.status = 404
    /\ \E f \in files :
         /\ f.id = resp.req.id
         /\ f.user_id # resp.user
         /\ f.file_path \in storage
         /\ \E r \in reqs :
              /\ r.op \in {"patch", "delete"}
              /\ r.user = f.user_id
              /\ f.id = IF r.op = "patch" THEN r.body.id ELSE r.id

\* C30: a PATCH whose record a DELETE has removed between its ownership read
\* and its update changes no row and answers with an error, and the table has
\* no row of that id afterwards; in general a row whose id the table did not
\* have before a step is a freshly inserted one.
C30_PatchNeverResurrects ==
    [][ /\ \A r \in reqs \ reqs' :
             (r.op = "patch" /\ \A f \in files : f.id # r.body.id)
             => /\ files' = files
                /\ resp'.op = "patch"
                /\ resp'.status = 500
                /\ \A g \in files' : g.id # r.body.id
        /\ \A g \in files' :
             (\A f \in files : f.id # g.id) => g.id = nextId /\ nextId' = nextId + 1
      ]_vars

\* The PATCH read the record, a DELETE then removed its blob and its row, and
\* the update found nothing: error, and no row of that id.
C30_Witness ==
    /\ resp.op = "patch"
    /\ resp.status = 500
    /\ resp.req.read.id = resp.req.body.id
    /\ resp.req.read.file_path \in removed
    /\ \A f \in files : f.id # resp.req.body.id

====
